---- MODULE Spec2Model ----
(***************************************************************************)
(* A model of the path tracer: the vector algebra, Sphere::hit, the        *)
(* materials, the object scan and the recursion of Scene::trace, and the   *)
(* parallel pixel loop of Scene::render with its caller App::window_event. *)
(*                                                                         *)
(* Arithmetic.  The program computes in f32.  The model computes on the    *)
(* integer grid: every f32 operation is the exact operation followed by a  *)
(* rounding to the nearest integer (division, square root), as an f32      *)
(* operation is the exact operation followed by a rounding to the nearest  *)
(* f32.  The smallest positive t of the model is 1, so the bound 1e-4 of   *)
(* RENDER_RANGE is 0 here (t > 0), and f32::INFINITY is a number no t of   *)
(* the model reaches.  Pixel coordinates are kept in half pixels (scale 2) *)
(* so that width/2, height/2 and a jitter of half a pixel are exact.       *)
(* Values the program draws from a random source are nondeterministic      *)
(* choices.                                                                *)
(***************************************************************************)
EXTENDS Integers, Sequences, FiniteSets, TLC

\* ------------------------------------------------------------------------
\* Bounds of the model
\* ------------------------------------------------------------------------
MaxDepth == 2
MaxObjects == 2
MaxWidth == 2
MaxSamples == 2

\* ------------------------------------------------------------------------
\* Option values: <<>> is None, <<v>> is Some(v)
\* ------------------------------------------------------------------------
None == <<>>
Some(v) == <<v>>

\* The element of a set of one element
The(S) == CHOOSE x \in S : TRUE

\* ------------------------------------------------------------------------
\* Vector algebra (geometry.rs)
\* ------------------------------------------------------------------------
Abs(a) == IF a < 0 THEN -a ELSE a

\* a / b in f32, b > 0: the quotient rounded to the nearest grid value
FDiv(a, b) ==
    IF a >= 0 THEN (2 * a + b) \div (2 * b) ELSE -((2 * (-a) + b) \div (2 * b))

\* f32::sqrt, n >= 0: the root rounded to the nearest grid value.  (A function,
\* so that the argument is evaluated once.)
Root[n \in Nat] ==
    CHOOSE k \in 0..n :
        /\ 4 * n < (2 * k + 1) * (2 * k + 1)
        /\ (k = 0 \/ (2 * k - 1) * (2 * k - 1) < 4 * n)

Sqrt(n) == Root[n]

ZERO == <<0, 0, 0>>

\* struct Vector { x, y, z }.  The operations on vectors are applications of
\* functions, so that an operand is evaluated once however often the result
\* uses it.
Vector == Int \X Int \X Int

VAdd[a \in Vector, b \in Vector] == <<a[1] + b[1], a[2] + b[2], a[3] + b[3]>>

Add(a, b) == VAdd[a, b]

VSub[a \in Vector, b \in Vector] == <<a[1] - b[1], a[2] - b[2], a[3] - b[3]>>

Sub(a, b) == VSub[a, b]

\* Vector * Vector, component-wise
VMul[a \in Vector, b \in Vector] == <<a[1] * b[1], a[2] * b[2], a[3] * b[3]>>

Mul(a, b) == VMul[a, b]

\* Vector * f32 and f32 * Vector
VScale[k \in Int, v \in Vector] == <<k * v[1], k * v[2], k * v[3]>>

Scale(k, v) == VScale[k, v]

\* Vector / f32
VDiv[v \in Vector, k \in Int] == <<FDiv(v[1], k), FDiv(v[2], k), FDiv(v[3], k)>>

Div(v, k) == VDiv[v, k]

VDot[a \in Vector, b \in Vector] == a[1] * b[1] + a[2] * b[2] + a[3] * b[3]

Dot(a, b) == VDot[a, b]

VCross[a \in Vector, b \in Vector] ==
    <<a[2] * b[3] - a[3] * b[2], a[3] * b[1] - a[1] * b[3], a[1] * b[2] - a[2] * b[1]>>

Cross(a, b) == VCross[a, b]

LengthSquare(v) == Dot(v, v)

Length(v) == Sqrt(LengthSquare(v))

\* Vector::normalize.  (A function, so that the argument is evaluated once.)
Unit[v \in Vector] == IF Length(v) > 0 THEN Div(v, Length(v)) ELSE v

Normalize(v) == Unit[v]

\* all components below 1e-8 in magnitude: on the grid, all components 0
NearZero(v) == Abs(v[1]) < 1 /\ Abs(v[2]) < 1 /\ Abs(v[3]) < 1

VReflect[v \in Vector, normal \in Vector] == Sub(v, Scale(2 * Dot(v, normal), normal))

Reflect(v, normal) == VReflect[v, normal]

Min(a, b) == IF a < b THEN a ELSE b

VRefract[v \in Vector, normal \in Vector, etai_over_etat \in Int] ==
    LET cos_theta == Min(Dot(Scale(-1, v), normal), 1)
        r_out_perp == Scale(etai_over_etat, Add(v, Scale(cos_theta, normal)))
        r_out_parallel == Scale(-Sqrt(Abs(1 - LengthSquare(r_out_perp))), normal)
    IN  Add(r_out_perp, r_out_parallel)

Refract(v, normal, etai_over_etat) == VRefract[v, normal, etai_over_etat]

\* Vector::random_unit: a vector with components drawn from [0, 1), accepted
\* when its squared length is in (0, 1), normalized.  The unit vectors of the
\* grid with components >= 0.
RandomUnit == {<<1, 0, 0>>, <<0, 1, 0>>, <<0, 0, 1>>}

\* ------------------------------------------------------------------------
\* Ray and Interval
\* ------------------------------------------------------------------------
Ray(origin, direction) == [origin |-> origin, direction |-> direction]

At(ray, t) == Add(ray.origin, Scale(t, ray.direction))

INFINITY == 1000

Interval(min, max) == [min |-> min, max |-> max]

RENDER_RANGE == Interval(0, INFINITY)

Surrounds(interval, x) == interval.min < x /\ interval.max > x

\* ------------------------------------------------------------------------
\* Sphere::hit
\* ------------------------------------------------------------------------
Sphere(center, radius) == [center |-> center, radius |-> radius]

Hit(t, normal, is_front) == [t |-> t, normal |-> normal, is_front |-> is_front]

Tca(sphere, ray) == Dot(Sub(sphere.center, ray.origin), ray.direction)

D2(sphere, ray) ==
    LengthSquare(Sub(sphere.center, ray.origin)) - Tca(sphere, ray) * Tca(sphere, ray)

R2(sphere) == sphere.radius * sphere.radius

Thc(sphere, ray) == Sqrt(R2(sphere) - D2(sphere, ray))

T0(sphere, ray) == Tca(sphere, ray) - Thc(sphere, ray)

T1(sphere, ray) == Tca(sphere, ray) + Thc(sphere, ray)

\* The hit for the roots t0 <= t1: the smaller root that the interval surrounds
NearerRootFarFirst(sphere, ray, interval, t0, t1) ==
    IF Surrounds(interval, t1)
    THEN Some(Hit(t1, Normalize(Sub(sphere.center, At(ray, t1))), FALSE))
    ELSE IF Surrounds(interval, t0)
         THEN Some(Hit(t0, Normalize(Sub(At(ray, t0), sphere.center)), TRUE))
         ELSE None

NearerRoot(sphere, ray, interval, t0, t1) ==
    IF Surrounds(interval, t0)
    THEN Some(Hit(t0, Normalize(Sub(At(ray, t0), sphere.center)), TRUE))
    ELSE IF Surrounds(interval, t1)
         THEN Some(Hit(t1, Normalize(Sub(sphere.center, At(ray, t1))), FALSE))
         ELSE None

\* impl Hittable for Sphere: hit.  (The roots are bound by a quantifier, so
\* that they are evaluated once.)
SphereHit(sphere, ray, interval) ==
    IF D2(sphere, ray) > R2(sphere)
    THEN None
    ELSE The({NearerRoot(sphere, ray, interval, t[1], t[2]) :
                 t \in {<<T0(sphere, ray), T1(sphere, ray)>>}})

\* ------------------------------------------------------------------------
\* Materials: Lambertian, Metal, Dielectric, Light and their on_hit
\* ------------------------------------------------------------------------
Lambertian(albedo) ==
    [kind |-> "Lambertian", albedo |-> albedo, fuzz |-> 0, refraction_index |-> 0,
     color |-> ZERO]

\* Metal::new clamps fuzz to [0, 1]
Metal(albedo, fuzz) ==
    [kind |-> "Metal", albedo |-> albedo,
     fuzz |-> IF fuzz < 0 THEN 0 ELSE IF fuzz > 1 THEN 1 ELSE fuzz,
     refraction_index |-> 0, color |-> ZERO]

Dielectric(refraction_index) ==
    [kind |-> "Dielectric", albedo |-> ZERO, fuzz |-> 0,
     refraction_index |-> refraction_index, color |-> ZERO]

Light(color) ==
    [kind |-> "Light", albedo |-> ZERO, fuzz |-> 0, refraction_index |-> 0,
     color |-> color]

\* enum OnHit { None, Scatter { attenuation, scattered }, Emitted { color } }
NoRay == Ray(ZERO, ZERO)

OnHitNone ==
    [kind |-> "None", attenuation |-> ZERO, scattered |-> NoRay, color |-> ZERO]

Scatter(attenuation, scattered) ==
    [kind |-> "Scatter", attenuation |-> attenuation, scattered |-> scattered,
     color |-> ZERO]

Emitted(color) ==
    [kind |-> "Emitted", attenuation |-> ZERO, scattered |-> NoRay, color |-> color]

\* The responses Lambertian::on_hit can give, one for each draw of random_unit
LambertianOnHit(m, ray, rec) ==
    { LET scatter_direction == Add(rec.normal, u)
          direction == IF NearZero(scatter_direction) THEN rec.normal
                       ELSE scatter_direction
      IN  Scatter(m.albedo, Ray(At(ray, rec.t), Normalize(direction)))
      : u \in RandomUnit }

\* The responses Metal::on_hit can give, one for each draw of random_unit
MetalOnHit(m, ray, rec) ==
    { LET reflected == Add(Reflect(ray.direction, rec.normal), Scale(m.fuzz, u))
      IN  IF Dot(reflected, rec.normal) > 0
          THEN Scatter(m.albedo, Ray(At(ray, rec.t), reflected))
          ELSE OnHitNone
      : u \in RandomUnit }

\* The responses Dielectric::on_hit can give.  sin_theta is NaN when
\* cos_theta * cos_theta > 1, and a comparison with NaN is false.  The
\* comparison of the reflectance with a uniform draw goes either way.
DielectricOnHit(m, ray, rec) ==
    LET ri == IF rec.is_front THEN FDiv(1, m.refraction_index) ELSE m.refraction_index
        cos_theta == Min(Dot(Scale(-1, ray.direction), rec.normal), 1)
        sin2 == 1 - cos_theta * cos_theta
        cannot_refract == sin2 >= 0 /\ ri * Sqrt(sin2) > 1
        reflects == IF cannot_refract THEN {TRUE} ELSE {TRUE, FALSE}
    IN  { Scatter(<<1, 1, 1>>,
                  Ray(At(ray, rec.t),
                      IF r THEN Reflect(ray.direction, rec.normal)
                      ELSE Refract(ray.direction, rec.normal, ri)))
          : r \in reflects }

LightOnHit(m, ray, rec) == {Emitted(m.color)}

\* dyn Material::on_hit: the set of responses of material m
OnHit(m, ray, rec) ==
    CASE m.kind = "Lambertian" -> LambertianOnHit(m, ray, rec)
      [] m.kind = "Metal" -> MetalOnHit(m, ray, rec)
      [] m.kind = "Dielectric" -> DielectricOnHit(m, ray, rec)
      [] m.kind = "Light" -> LightOnHit(m, ray, rec)

\* struct Object { shape, material }
Object(shape, material) == [shape |-> shape, material |-> material]

\* ------------------------------------------------------------------------
\* The object scan of Scene::trace
\* ------------------------------------------------------------------------
\* The state of the scan: the two locals hit and material, and for each the
\* position in the list of the object it was taken from (0: none).
ScanInit == [hit |-> None, material |-> None, hit_obj |-> 0, mat_obj |-> 0]

\* let t_min = if let Some(Hit { t, .. }) = hit { t } else { interval.max }
TMinNoShrink(hit, interval) == interval.max

TMin(hit, interval) == IF hit # None THEN hit[1].t ELSE interval.max

\* if h.t < t_min { hit = Some(h); material = Some(object.material.clone()); }
\* for what shape.hit returned, got
SelectKeepsMaterial(st, object, k, t_min, got) ==
    IF got = None THEN st
    ELSE IF got[1].t < t_min
         THEN [hit |-> got,
               material |-> IF st.material = None THEN Some(object.material)
                            ELSE st.material,
               hit_obj |-> k,
               mat_obj |-> IF st.material = None THEN k ELSE st.mat_obj]
         ELSE st

Select(st, object, k, t_min, got) ==
    IF got = None THEN st
    ELSE IF got[1].t < t_min
         THEN [hit |-> got, material |-> Some(object.material),
               hit_obj |-> k, mat_obj |-> k]
         ELSE st

\* One iteration of the loop over self.objects, for the object at position k.
\* (What shape.hit returns is bound by a quantifier, so that it is evaluated
\* once.)
ScanStepLastWins(st, object, k, ray, interval) ==
    The({ IF got = None THEN st
          ELSE [hit |-> got, material |-> Some(object.material),
                hit_obj |-> k, mat_obj |-> k]
          : got \in {SphereHit(object.shape, ray, interval)} })

ScanStep(st, object, k, ray, interval) ==
    The({ Select(st, object, k, TMin(st.hit, interval), got) :
            got \in {SphereHit(object.shape, ray,
                               Interval(interval.min, TMin(st.hit, interval)))} })

\* The whole loop, from position k on
RECURSIVE ScanFrom(_, _, _, _, _)
ScanFrom(st, objects, k, ray, interval) ==
    IF k > Len(objects) THEN st
    ELSE ScanFrom(ScanStep(st, objects[k], k, ray, interval), objects, k + 1, ray,
                  interval)

Scan(objects, ray, interval) == ScanFrom(ScanInit, objects, 1, ray, interval)

\* ------------------------------------------------------------------------
\* State
\* ------------------------------------------------------------------------
VARIABLES
    objects,    \* Scene.objects
    scene,      \* the other fields of Scene: the camera, max_samples, depth
    call,       \* the arguments of the outermost Scene::trace call
    stack,      \* the activation records of Scene::trace, innermost last
    result,     \* what the outermost call returned: None until it returns
    n_trace,    \* Scene::trace calls entered so far
    n_hit,      \* Hittable::hit calls made so far
    n_on_hit,   \* Material::on_hit calls made so far
    last_hit,   \* the last Hittable::hit call: its arguments and what it returned
    window,     \* the inner size of the window: width and height
    rpc,        \* where App::window_event is in handling the Enter key
    buffer,     \* the surface's pixel buffer, slot by slot
    pending,    \* the (pixel, index) pairs of the parallel loop not yet handed out
    taken,      \* the pairs handed to a worker whose pixel is not yet written
    writes,     \* how often each slot has been written by this render
    drawn,      \* for each slot written, the pixel coordinates it was computed for
    moved       \* a camera ray was built that is not the ray through the pixel itself

tvars == <<call, stack, result, n_trace, n_hit, n_on_hit, last_hit>>

rvars == <<scene, window, rpc, buffer, pending, taken, writes, drawn, moved>>

vars == <<objects, scene, call, stack, result, n_trace, n_hit, n_on_hit, last_hit,
          window, rpc, buffer, pending, taken, writes, drawn, moved>>

\* ------------------------------------------------------------------------
\* Scenes, rays and intervals the calls are drawn from
\* ------------------------------------------------------------------------
ObjA == Object(Sphere(<<0, 0, -4>>, 2), Lambertian(<<1, 2, 0>>))
ObjB == Object(Sphere(<<0, 0, -5>>, 3), Light(<<3, 2, 1>>))
ObjC == Object(Sphere(<<0, 0, -1>>, 3), Dielectric(2))
ObjD == Object(Sphere(<<2, 0, -4>>, 2), Metal(<<2, 1, 1>>, 0))
ObjE == Object(Sphere(<<0, 0, -9>>, 2), Metal(<<1, 1, 2>>, 1))

Catalog == {ObjA, ObjB, ObjC, ObjD, ObjE}

ObjectLists == UNION {[1..n -> Catalog] : n \in 0..MaxObjects}

Rays ==
    {Ray(ZERO, <<0, 0, -1>>), Ray(ZERO, <<1, 0, 0>>), Ray(<<0, 0, -4>>, <<0, 0, -1>>)}

Intervals == {RENDER_RANGE, Interval(0, 5), Interval(2, 7)}

\* ------------------------------------------------------------------------
\* Scene::trace
\* ------------------------------------------------------------------------
\* An activation record: the arguments, the position in the body, the loop
\* position idx, the locals of the scan, the material's response, the call
\* made for the scattered ray once it has returned, and the value returned.
Frame(ray, interval, depth) ==
    [ray |-> ray, interval |-> interval, depth |-> depth, pc |-> "enter", idx |-> 0,
     scan |-> ScanInit, onhit |-> None, sub |-> None, ret |-> ZERO]

Top == stack[Len(stack)]

SetTop(f) == [stack EXCEPT ![Len(stack)] = f]

\* if depth == 0
DepthExhaustedNever(depth) == depth < 0

DepthExhausted(depth) == depth = 0

\* self.trace(&scattered, interval, depth - 1)
ChildCallShrunk(f, o) == Frame(o.scattered, Interval(f.interval.min, f.scan.hit[1].t), f.depth - 1)

ChildCallSameDepth(f, o) == Frame(o.scattered, f.interval, f.depth)

ChildCall(f, o) == Frame(o.scattered, f.interval, f.depth - 1)

\* self.trace(..) * attenuation
Combine(sub_ret, attenuation) == Mul(sub_ret, attenuation)

\* Entering the body: the test of depth
Enter ==
    /\ stack # <<>>
    /\ Top.pc = "enter"
    /\ n_trace' = n_trace + 1
    /\ stack' = SetTop(IF DepthExhausted(Top.depth)
                       THEN [Top EXCEPT !.pc = "ret", !.ret = ZERO]
                       ELSE [Top EXCEPT !.pc = "scan", !.idx = 1, !.scan = ScanInit])
    /\ UNCHANGED <<objects, call, result, n_hit, n_on_hit, last_hit>>
    /\ UNCHANGED rvars

\* The Hittable::hit call of the iteration of frame f: its arguments and result
HitCall(f) ==
    LET object == objects[f.idx]
        searched == Interval(f.interval.min, TMin(f.scan.hit, f.interval))
    IN  [shape |-> object.shape, ray |-> f.ray, interval |-> searched,
         hit |-> SphereHit(object.shape, f.ray, searched)]

\* Frame f after one iteration of for object in self.objects.iter()
Scanned(f) ==
    [f EXCEPT !.scan = ScanStep(f.scan, objects[f.idx], f.idx, f.ray, f.interval),
              !.idx = f.idx + 1]

\* One iteration of for object in self.objects.iter()
ScanObject ==
    /\ stack # <<>>
    /\ Top.pc = "scan"
    /\ Top.idx <= Len(objects)
    /\ stack' = SetTop(Scanned(Top))
    /\ last_hit' = Some(HitCall(Top))
    /\ n_hit' = n_hit + 1
    /\ UNCHANGED <<objects, call, result, n_trace, n_on_hit>>
    /\ UNCHANGED rvars

\* After the loop: if let Some(h) = hit { match material.unwrap().on_hit(..) }
\* else { Color::ZERO }
Shade ==
    /\ stack # <<>>
    /\ Top.pc = "scan"
    /\ Top.idx > Len(objects)
    /\ IF Top.scan.hit = None
       THEN /\ stack' = SetTop([Top EXCEPT !.pc = "ret", !.ret = ZERO])
            /\ UNCHANGED n_on_hit
       ELSE IF Top.scan.material = None
       THEN /\ stack' = SetTop([Top EXCEPT !.pc = "panic"])
            /\ UNCHANGED n_on_hit
       ELSE \E o \in OnHit(Top.scan.material[1], Top.ray, Top.scan.hit[1]) :
            /\ n_on_hit' = n_on_hit + 1
            /\ stack' =
                 CASE o.kind = "None" ->
                        SetTop([Top EXCEPT !.pc = "ret", !.onhit = Some(o), !.ret = ZERO])
                   [] o.kind = "Emitted" ->
                        SetTop([Top EXCEPT !.pc = "ret", !.onhit = Some(o),
                                           !.ret = o.color])
                   [] o.kind = "Scatter" ->
                        Append(SetTop([Top EXCEPT !.pc = "wait", !.onhit = Some(o)]),
                               ChildCall(Top, o))
    /\ UNCHANGED <<objects, call, result, n_trace, n_hit, last_hit>>
    /\ UNCHANGED rvars

\* A call returns: to the caller waiting for the scattered ray's color, or, for
\* the outermost call, to whoever called trace
Return ==
    /\ stack # <<>>
    /\ Top.pc = "ret"
    /\ IF Len(stack) = 1
       THEN /\ result' = Some(Top.ret)
            /\ stack' = <<>>
       ELSE LET caller == stack[Len(stack) - 1]
                done == [ray |-> Top.ray, interval |-> Top.interval,
                         depth |-> Top.depth, ret |-> Top.ret]
            IN  /\ stack' = [SubSeq(stack, 1, Len(stack) - 1) EXCEPT
                        ![Len(stack) - 1] =
                            [caller EXCEPT !.pc = "ret", !.sub = Some(done),
                                !.ret = Combine(Top.ret, caller.onhit[1].attenuation)]]
                /\ UNCHANGED result
    /\ UNCHANGED <<objects, call, n_trace, n_hit, n_on_hit, last_hit>>
    /\ UNCHANGED rvars

\* The scene of main(), but for the objects, max_samples and depth.  camera_fov
\* is in eighths of pi: 6 is 3 * PI / 4.
MainScene(max_samples, depth) ==
    [camera_position |-> ZERO, camera_direction |-> Normalize(<<0, 0, -1>>),
     camera_up |-> <<0, 1, 0>>, camera_fov |-> 6, max_samples |-> max_samples,
     depth |-> depth]

\* No key has been pressed
NoRender ==
    /\ window = [width |-> 0, height |-> 0]
    /\ rpc = "idle"
    /\ buffer = <<>>
    /\ pending = {}
    /\ taken = {}
    /\ writes = <<>>
    /\ drawn = <<>>
    /\ moved = FALSE

\* Scene::trace called on any scene, with any arguments
Init ==
    /\ objects \in ObjectLists
    /\ scene = MainScene(1, 0)
    /\ call \in {[ray |-> r, interval |-> i, depth |-> d] :
                    r \in Rays, i \in Intervals, d \in 0..MaxDepth}
    /\ stack = <<Frame(call.ray, call.interval, call.depth)>>
    /\ result = None
    /\ n_trace = 0
    /\ n_hit = 0
    /\ n_on_hit = 0
    /\ last_hit = None
    /\ NoRender

Next == Enter \/ ScanObject \/ Shade \/ Return

Spec == Init /\ [][Next]_vars

\* A call that is entered runs on: nothing in Scene::trace waits for anything
FairSpec == Spec /\ WF_vars(Next)

\* ------------------------------------------------------------------------
\* Scene::trace as a function: the colors a call can return, one for each way
\* the random draws of the materials can fall
\* ------------------------------------------------------------------------
RECURSIVE TraceSet(_, _, _, _)
TraceSet(objs, ray, interval, depth) ==
    IF DepthExhausted(depth) THEN {ZERO}
    ELSE LET s == Scan(objs, ray, interval)
         IN  IF s.hit = None THEN {ZERO}
             ELSE UNION {
                    CASE o.kind = "None" -> {ZERO}
                      [] o.kind = "Emitted" -> {o.color}
                      [] o.kind = "Scatter" ->
                           {Combine(c, o.attenuation) :
                               c \in TraceSet(objs, o.scattered, interval, depth - 1)}
                    : o \in OnHit(s.material[1], ray, s.hit[1]) }

\* ------------------------------------------------------------------------
\* gamma and color: the packed pixel of a color
\* ------------------------------------------------------------------------
\* (r.sqrt().clamp(0., 1.) * 255.) as u32 for r = num / den, exactly: the cast
\* truncates
Channel(num, den) ==
    IF num >= den THEN 255
    ELSE CHOOSE k \in 0..255 :
            k * k <= (65025 * num) \div den /\ (65025 * num) \div den < (k + 1) * (k + 1)

\* red << 16 | green << 8 | blue
Pack(red, green, blue) == red * 65536 + green * 256 + blue

\* gamma(vec_pixel) for vec_pixel = sum / den
Gamma(sum, den) == Pack(Channel(sum[1], den), Channel(sum[2], den), Channel(sum[3], den))

\* ------------------------------------------------------------------------
\* Scene::render and App::window_event
\* ------------------------------------------------------------------------
\* f32::tan(camera_fov / 2.), camera_fov in eighths of pi: tan(pi/4) = 1,
\* tan(3 pi/8) = 2.41
TanHalf(camera_fov) == IF camera_fov = 4 THEN 1 ELSE 2

\* let camera_right = self.camera_direction.cross(self.camera_up).normalize()
CameraRight == Normalize(Cross(scene.camera_direction, scene.camera_up))

\* let camera_up = camera_right.cross(self.camera_direction).normalize()
CameraUp == Normalize(Cross(CameraRight, scene.camera_direction))

\* let l = width as f32 / (self.camera_fov / 2.).tan(), in half pixels
FocalLength2(width) == FDiv(2 * width, TanHalf(scene.camera_fov))

\* let x = (index % width) as f32 - width as f32 / 2., in half pixels
PixelX2Swapped(index, width, height) == 2 * (index \div width) - width

PixelX2(index, width, height) == 2 * (index % width) - width

\* let y = (index / width) as f32 - height as f32 / 2., in half pixels
PixelY2(index, width, height) == 2 * (index \div width) - height

\* rng.gen::<f32>() - 0.5, in half pixels: a draw from [0, 1) less a half
Jitter2 == {-1, 0, 1}

\* Ray::new(self.camera_position, ((x + ..) * camera_right - (y + ..) * camera_up
\*          + l * self.camera_direction).normalize()), the sums in half pixels
CameraRay(x2, y2, width) ==
    Ray(scene.camera_position,
        Normalize(Add(Sub(Scale(x2, CameraRight), Scale(y2, CameraUp)),
                      Scale(FocalLength2(width), scene.camera_direction))))

\* One sample of the pixel at (x2, y2): the ray built, for each draw of the
\* two jitters, and the color traced
Samples(x2, y2, width) ==
    UNION { { [color |-> c, moved |-> CameraRay(x2 + jx, y2 + jy, width) # CameraRay(x2, y2, width)] :
                c \in TraceSet(objects, CameraRay(x2 + jx, y2 + jy, width), RENDER_RANGE,
                               scene.depth) }
            : jx \in Jitter2, jy \in Jitter2 }

\* for _ in 0..self.max_samples { vec_pixel = vec_pixel + contribution * trace(..) }
\* after n rounds: vec_pixel is sum / max_samples
RECURSIVE SampleRuns(_, _)
SampleRuns(samples, n) ==
    IF n = 0 THEN {[sum |-> ZERO, moved |-> FALSE]}
    ELSE {[sum |-> Add(r.sum, s.color), moved |-> r.moved \/ s.moved] :
            r \in SampleRuns(samples, n - 1), s \in samples}

\* The closure of for_each for the pixel at (x2, y2): the packed pixel written
PixelRuns(x2, y2, width) ==
    {[value |-> Gamma(r.sum, scene.max_samples), moved |-> r.moved] :
        r \in SampleRuns(Samples(x2, y2, width), scene.max_samples)}

\* What a slot holds before this render writes it
Stale == -1

Slots == 0..(window.width * window.height - 1)

\* The Enter key: window_event sizes the surface to the window, takes its
\* buffer and calls render, which sets up the parallel loop over
\* buffer.par_iter_mut().zip(0..width * height)
KeyEnter ==
    /\ rpc = "idle"
    /\ IF window.width = 0 \/ window.height = 0
       THEN /\ rpc' = "panicked"
            /\ UNCHANGED <<buffer, pending, writes, drawn>>
       ELSE /\ rpc' = "rendering"
            /\ buffer' = [i \in Slots |-> Stale]
            /\ writes' = [i \in Slots |-> 0]
            /\ drawn' = [i \in Slots |-> None]
            /\ pending' = Slots
    /\ UNCHANGED <<objects, scene, window, taken, moved>>
    /\ UNCHANGED tvars

\* The threads of rayon's pool
Workers == {"w1", "w2"}

\* The loop hands a pair to a worker that is free
Take ==
    /\ rpc = "rendering"
    /\ Cardinality(taken) < Cardinality(Workers)
    /\ \E i \in pending :
        /\ pending' = pending \ {i}
        /\ taken' = taken \cup {i}
    /\ UNCHANGED <<objects, scene, window, rpc, buffer, writes, drawn, moved>>
    /\ UNCHANGED tvars

\* A worker runs the closure on its pair: *pixel = gamma(vec_pixel)
Write ==
    /\ rpc = "rendering"
    /\ \E i \in taken :
        LET x2 == PixelX2(i, window.width, window.height)
            y2 == PixelY2(i, window.width, window.height)
        IN  \E run \in PixelRuns(x2, y2, window.width) :
                /\ buffer' = [buffer EXCEPT ![i] = run.value]
                /\ writes' = [writes EXCEPT ![i] = @ + 1]
                /\ drawn' = [drawn EXCEPT ![i] = Some(<<x2, y2>>)]
                /\ moved' = (moved \/ run.moved)
                /\ taken' = taken \ {i}
    /\ UNCHANGED <<objects, scene, window, rpc, pending>>
    /\ UNCHANGED tvars

\* for_each has run the closure on every pair: render returns and window_event
\* presents the buffer
Present ==
    /\ rpc = "rendering"
    /\ pending = {}
    /\ taken = {}
    /\ rpc' = "presented"
    /\ UNCHANGED <<objects, scene, window, buffer, pending, taken, writes, drawn, moved>>
    /\ UNCHANGED tvars

RenderLists == {<<>>, <<ObjB>>, <<ObjA, ObjB>>}

\* The heights of the window
Heights == 0..2

\* The Enter key pressed on a window of any size, for any scene
RenderInit ==
    /\ objects \in RenderLists
    /\ scene \in {MainScene(n, 1) : n \in 0..MaxSamples}
    /\ window \in {[width |-> w, height |-> h] : w \in 0..MaxWidth, h \in Heights}
    /\ rpc = "idle"
    /\ buffer = <<>>
    /\ pending = {}
    /\ taken = {}
    /\ writes = <<>>
    /\ drawn = <<>>
    /\ moved = FALSE
    /\ call = [ray |-> NoRay, interval |-> RENDER_RANGE, depth |-> 0]
    /\ stack = <<>>
    /\ result = None
    /\ n_trace = 0
    /\ n_hit = 0
    /\ n_on_hit = 0
    /\ last_hit = None

RenderNext == KeyEnter \/ Take \/ Write \/ Present

RenderSpec == RenderInit /\ [][RenderNext]_vars

\* ------------------------------------------------------------------------
\* Vocabulary of the properties
\* ------------------------------------------------------------------------
\* What the shape of the object at position k reports for a ray over a whole
\* interval, asked on its own
OwnHit(k, ray, interval) == SphereHit(objects[k].shape, ray, interval)

\* The positions of the objects that have an intersection inside the interval
HitIndices(ray, interval) ==
    {k \in 1..Len(objects) : OwnHit(k, ray, interval) # None}

\* The positions of the objects whose intersection has the smallest t
NearestIndices(ray, interval) ==
    {k \in HitIndices(ray, interval) :
        \A j \in HitIndices(ray, interval) :
            OwnHit(k, ray, interval)[1].t <= OwnHit(j, ray, interval)[1].t}

\* The objects in another order: p is a permutation of the positions
Reordered(p) == [i \in 1..Len(objects) |-> objects[p[i]]]

Running == stack # <<>>

\* The innermost call has finished its loop over the objects
ScanEnded == Running /\ Top.pc = "scan" /\ Top.idx > Len(objects)

\* This step is one iteration of the loop of the innermost call
ScanIteration ==
    /\ Running
    /\ Top.pc = "scan"
    /\ Len(stack') = Len(stack)
    /\ Top'.pc = "scan"
    /\ Top'.idx = Top.idx + 1

\* The upper bound the next shape is tested against
SearchBound(f) == TMin(f.scan.hit, f.interval)

\* ------------------------------------------------------------------------
\* C1: after the scan the selected hit is one with the smallest t over all
\* objects that have an intersection strictly inside the interval, whatever
\* the order of the list; when no object has one, no hit is selected.
\* ------------------------------------------------------------------------
C1_NearestHitSelected ==
    ScanEnded =>
        LET ray == Top.ray
            interval == Top.interval
            H == HitIndices(ray, interval)
        IN  /\ H = {} => Top.scan.hit = None
            /\ H # {} =>
                /\ Top.scan.hit # None
                /\ \E k \in H : Top.scan.hit = OwnHit(k, ray, interval)
                /\ \A k \in H : Top.scan.hit[1].t <= OwnHit(k, ray, interval)[1].t
            /\ \A p \in Permutations(1..Len(objects)) :
                LET other == Scan(Reordered(p), ray, interval).hit
                IN  /\ (other = None) <=> (Top.scan.hit = None)
                    /\ other # None => other[1].t = Top.scan.hit[1].t

\* Two objects are hit, the later one strictly nearer, and it is selected
C1_Witness ==
    /\ ScanEnded
    /\ Len(objects) = 2
    /\ HitIndices(Top.ray, Top.interval) = {1, 2}
    /\ OwnHit(2, Top.ray, Top.interval)[1].t < OwnHit(1, Top.ray, Top.interval)[1].t
    /\ Top.scan.hit_obj = 2

\* ------------------------------------------------------------------------
\* C2: when several objects report the same smallest t, the earliest of them
\* in the list is the one whose hit and material are selected; an iteration
\* replaces a selected hit only by one with a strictly smaller t.
\* ------------------------------------------------------------------------
EarliestNearestSelected ==
    ScanEnded =>
        LET N == NearestIndices(Top.ray, Top.interval)
        IN  N # {} =>
                /\ Top.scan.hit_obj \in N
                /\ \A k \in N : Top.scan.hit_obj <= k
                /\ Top.scan.material = Some(objects[Top.scan.hit_obj].material)

\* C2: the earliest of the objects with the smallest t is selected, with its
\* material, and an iteration replaces a selected hit only by a strictly nearer one
C2_TieBreak ==
    /\ []EarliestNearestSelected
    /\ [][(ScanIteration /\ Top.scan.hit # None /\ Top'.scan.hit_obj # Top.scan.hit_obj)
              => Top'.scan.hit[1].t < Top.scan.hit[1].t]_vars

\* Two different objects report the same smallest t and the first is selected
C2_Witness ==
    /\ ScanEnded
    /\ Len(objects) = 2
    /\ objects[1] # objects[2]
    /\ NearestIndices(Top.ray, Top.interval) = {1, 2}
    /\ Top.scan.hit_obj = 1
    /\ Top.scan.material = Some(objects[1].material)

\* ------------------------------------------------------------------------
\* C3: trace with depth = 0 returns black, without any Hittable::hit call and
\* without any Material::on_hit call.
\* ------------------------------------------------------------------------
C3_DepthZeroBlack ==
    /\ \A i \in 1..Len(stack) :
          stack[i].depth = 0 =>
              /\ stack[i].pc \in {"enter", "ret"}
              /\ stack[i].idx = 0
              /\ stack[i].onhit = None
              /\ stack[i].pc = "ret" => stack[i].ret = ZERO
    /\ call.depth = 0 =>
          /\ n_hit = 0
          /\ n_on_hit = 0
          /\ result # None => result = Some(ZERO)

\* A call with depth 0 on a scene with an object in the ray's way has returned
C3_Witness ==
    /\ call.depth = 0
    /\ HitIndices(call.ray, call.interval) # {}
    /\ result = Some(ZERO)

\* ------------------------------------------------------------------------
\* C4: with depth > 0 trace returns black when no object is hit, black when
\* the material of the hit object absorbs, the emitted color and nothing else
\* when it emits (no further call), and attenuation * trace(scattered, the
\* caller's own interval, depth - 1), component by component, when it scatters.
\* ------------------------------------------------------------------------
C4_TraceResult ==
    (Running /\ Top.pc = "ret" /\ Top.depth > 0) =>
        LET f == Top
            N == NearestIndices(f.ray, f.interval)
        IN  /\ N = {} => (f.ret = ZERO /\ f.onhit = None /\ f.sub = None)
            /\ N # {} =>
                /\ f.onhit # None
                /\ \E k \in N :
                      f.onhit[1] \in OnHit(objects[k].material, f.ray,
                                           OwnHit(k, f.ray, f.interval)[1])
                /\ f.onhit[1].kind = "None" => (f.ret = ZERO /\ f.sub = None)
                /\ f.onhit[1].kind = "Emitted" =>
                      (f.ret = f.onhit[1].color /\ f.sub = None)
                /\ f.onhit[1].kind = "Scatter" =>
                      /\ f.sub # None
                      /\ f.sub[1].ray = f.onhit[1].scattered
                      /\ f.sub[1].interval = f.interval
                      /\ f.sub[1].depth = f.depth - 1
                      /\ f.ret = <<f.onhit[1].attenuation[1] * f.sub[1].ret[1],
                                   f.onhit[1].attenuation[2] * f.sub[1].ret[2],
                                   f.onhit[1].attenuation[3] * f.sub[1].ret[3]>>

\* A call over a bounded interval scattered, the scattered ray's call came
\* back with light, and the call returns the light tinted by the attenuation
C4_Witness ==
    /\ Running
    /\ Top.pc = "ret"
    /\ Top.depth > 0
    /\ Top.interval.max < INFINITY
    /\ Top.onhit # None
    /\ Top.onhit[1].kind = "Scatter"
    /\ Top.onhit[1].attenuation # <<1, 1, 1>>
    /\ Top.sub # None
    /\ Top.sub[1].ret # ZERO
    /\ Top.ret # Top.sub[1].ret

\* ------------------------------------------------------------------------
\* C5: trace terminates for every depth d: each nested call has a depth one
\* less than its caller, a call with depth 0 makes no call, so there are at
\* most d on_hit calls and at most d nested trace calls, and the outermost
\* call returns.
\* ------------------------------------------------------------------------
DepthBounded ==
    /\ Len(stack) <= call.depth + 1
    /\ \A i \in 1..Len(stack) : stack[i].depth = call.depth - (i - 1)
    /\ \A i \in 1..Len(stack) : stack[i].depth = 0 => stack[i].pc # "wait"
    /\ n_on_hit <= call.depth
    /\ n_trace <= call.depth + 1
    /\ n_hit <= call.depth * Len(objects)

\* C5: the depths of the nested calls go down by one, the counts of calls stay
\* within the depth, and the outermost call returns
C5_Terminates == []DepthBounded /\ <>(result # None)

\* The recursion went all the way down: d on_hit calls, d nested calls, and
\* the outermost call has returned
C5_Witness ==
    /\ call.depth = MaxDepth
    /\ n_on_hit = call.depth
    /\ n_trace = call.depth + 1
    /\ result # None

\* ------------------------------------------------------------------------
\* C9: Sphere::hit root selection.
\* ------------------------------------------------------------------------
\* The parts of the claim that hold of every call: d2 > r2 gives no hit;
\* otherwise t0 when it lies strictly inside the interval, with is_front, else
\* t1 when it lies strictly inside, without is_front, else no hit; a returned t
\* lies strictly inside the interval.
RootSelection(c) ==
    LET t0 == T0(c.shape, c.ray)
        t1 == T1(c.shape, c.ray)
        in0 == c.interval.min < t0 /\ t0 < c.interval.max
        in1 == c.interval.min < t1 /\ t1 < c.interval.max
    IN  /\ D2(c.shape, c.ray) > R2(c.shape) => c.hit = None
        /\ D2(c.shape, c.ray) <= R2(c.shape) =>
            /\ t0 <= t1
            /\ in0 => (c.hit # None /\ c.hit[1].t = t0 /\ c.hit[1].is_front)
            /\ (~in0 /\ in1) => (c.hit # None /\ c.hit[1].t = t1 /\ ~c.hit[1].is_front)
            /\ (~in0 /\ ~in1) => c.hit = None
        /\ c.hit # None =>
              (c.interval.min < c.hit[1].t /\ c.hit[1].t < c.interval.max)

\* The ray starts strictly inside the sphere
StartsInside(c) ==
    /\ D2(c.shape, c.ray) <= R2(c.shape)
    /\ T0(c.shape, c.ray) < 0
    /\ 0 < T1(c.shape, c.ray)

FarRootBack(c) ==
    c.hit # None /\ c.hit[1].t = T1(c.shape, c.ray) /\ ~c.hit[1].is_front

\* C9 as it stands: the root selection, and every ray that starts strictly
\* inside the sphere gets the far root with is_front = false
C9_AsClaimed ==
    last_hit # None =>
        /\ RootSelection(last_hit[1])
        /\ StartsInside(last_hit[1]) => FarRootBack(last_hit[1])

\* C9 amended: a ray that starts strictly inside the sphere gets the far root
\* with is_front = false when interval.min >= 0 and the far root lies strictly
\* inside the interval, and no hit when interval.min >= 0 and the far root
\* does not (the upper bound has shrunk to a nearer hit).
C9_RootSelection ==
    last_hit # None =>
        LET c == last_hit[1]
            in1 == c.interval.min < T1(c.shape, c.ray) /\ T1(c.shape, c.ray) < c.interval.max
        IN  /\ RootSelection(c)
            /\ (StartsInside(c) /\ c.interval.min >= 0 /\ in1) => FarRootBack(c)
            /\ (StartsInside(c) /\ c.interval.min >= 0 /\ ~in1) => c.hit = None

\* A ray that starts inside a sphere was tested and got the far root
C9_Witness ==
    /\ last_hit # None
    /\ StartsInside(last_hit[1])
    /\ last_hit[1].interval.min >= 0
    /\ FarRootBack(last_hit[1])

\* ------------------------------------------------------------------------
\* C10: during and after the scan, hit and material are set together, the
\* material is that of the object whose shape produced the hit, and the upper
\* bound of the search never increases; material.unwrap() never fails.
\* ------------------------------------------------------------------------
HitAndMaterialTogether ==
    \A i \in 1..Len(stack) :
        LET f == stack[i]
        IN  /\ (f.scan.hit = None) <=> (f.scan.material = None)
            /\ f.scan.hit # None =>
                /\ f.scan.hit_obj \in 1..Len(objects)
                /\ f.scan.mat_obj = f.scan.hit_obj
                /\ f.scan.material = Some(objects[f.scan.hit_obj].material)
                /\ f.scan.hit = OwnHit(f.scan.hit_obj, f.ray, f.interval)
            /\ f.pc # "panic"

\* C10: hit and material are set together at every point of the scan, and no
\* iteration raises the upper bound of the search
C10_HitMaterialPaired ==
    /\ []HitAndMaterialTogether
    /\ [][ScanIteration => SearchBound(Top') <= SearchBound(Top)]_vars

\* The scan replaced the hit of the first object by that of the second, whose
\* material is another one, and the material followed
C10_Witness ==
    /\ ScanEnded
    /\ Len(objects) = 2
    /\ HitIndices(Top.ray, Top.interval) = {1, 2}
    /\ objects[1].material # objects[2].material
    /\ Top.scan.hit_obj = 2
    /\ Top.scan.material = Some(objects[2].material)

\* ------------------------------------------------------------------------
\* C6: render writes every slot i of a buffer of width * height slots exactly
\* once, with the color computed for the pixel in column i mod width and row
\* i div width; under any interleaving of the workers no slot is written
\* twice, and none is left unwritten when render returns.
\* ------------------------------------------------------------------------
\* The packed pixels the sampling of the pixel in a column and a row can give
PixelColors(column, row) ==
    {r.value : r \in PixelRuns(2 * column - window.width, 2 * row - window.height,
                               window.width)}

\* C6: every slot is written at most once while the workers run, exactly once
\* when render has returned, with a color of the pixel in column i mod width
\* and row i div width
C6_EverySlotOnce ==
    rpc \in {"rendering", "presented"} =>
        /\ DOMAIN buffer = 0..(window.width * window.height - 1)
        /\ pending \cap taken = {}
        /\ \A i \in DOMAIN buffer :
              /\ writes[i] <= 1
              /\ writes[i] = 0 <=> i \in pending \cup taken
              /\ writes[i] = 0 => buffer[i] = Stale
              /\ writes[i] = 1 =>
                    drawn[i] = Some(<<2 * (i % window.width) - window.width,
                                      2 * (i \div window.width) - window.height>>)
        /\ rpc = "presented" =>
              \A i \in DOMAIN buffer :
                  /\ writes[i] = 1
                  /\ buffer[i] \in PixelColors(i % window.width, i \div window.width)

\* A picture of two rows and two columns or more has been presented, every
\* slot written once, and not all its pixels are the same
C6_Witness ==
    /\ rpc = "presented"
    /\ window.width >= 2
    /\ window.height >= 2
    /\ \A i \in DOMAIN buffer : writes[i] = 1
    /\ \E i, j \in DOMAIN buffer : buffer[i] # buffer[j]

\* ------------------------------------------------------------------------
\* C7: with a sample count of 1 no jitter is applied: the one camera ray of a
\* pixel is the ray through (x, y), the same in every render of the scene.
\* ------------------------------------------------------------------------
\* C7: with one sample per pixel no ray built differs from the ray through (x, y)
C7_NoJitterOnSingleSample == scene.max_samples = 1 => ~moved

\* ------------------------------------------------------------------------
\* C8: a render with a sample count of zero, or a width or a height of zero,
\* is rejected before any pixel is traced or written: no slot is written and
\* nothing is presented.
\* ------------------------------------------------------------------------
InvalidConfiguration ==
    scene.max_samples = 0 \/ window.width = 0 \/ window.height = 0

\* C8: with an invalid configuration the render is never started: no slot is
\* written and nothing is presented
C8_InvalidConfigurationRejected ==
    InvalidConfiguration =>
        /\ rpc \in {"idle", "panicked"}
        /\ \A i \in DOMAIN writes : writes[i] = 0

====
